---- MODULE Spec2Model ----
(***************************************************************************)
(* State-machine model of the game core of ponkisimulator: the bounded     *)
(* variant (src/main.js, hard walls) and the toroidal variant              *)
(* (src/unnamed/part_000, wraparound).  The variable `policy` selects the  *)
(* variant; it is fixed by Init.  Of rendering and audio only the cases in *)
(* which draw() or playMeow() throw are modelled.                          *)
(***************************************************************************)
EXTENDS Integers, Sequences, FiniteSets

VARIABLES
    policy,         \* "bounded" (src/main.js) or "wrap" (src/unnamed/part_000)
    snake,          \* sequence of cells, head first
    direction,      \* committed direction
    nextDirection,  \* pending direction
    food,           \* target cell
    score,
    gameLoopId,     \* 0 (undefined/null) or the handle of the last interval
    timers,         \* handles of the intervals currently scheduled
    isGameRunning,
    isPaused,
    swipeStart,     \* NoPoint (null) or the pointer-down position
    lastTap,        \* [t, x, y] of the last recorded tap (toroidal variant)
    clock,          \* Date.now(), in steps of GAME_SPEED
    event,          \* observation: the handler that ran last
    pauseSnap       \* observation: snapshot taken by the last pause

vars == <<policy, snake, direction, nextDirection, food, score, gameLoopId,
          timers, isGameRunning, isPaused, swipeStart, lastTap, clock,
          event, pauseSnap>>

----------------------------------------------------------------------------
(* Program constants *)

TILE_COUNT == 30

threshold == 30

doubleTapTimeout == 300

doubleTapDist == 40

(* Bounds of the model *)

GAME_SPEED == 100

\* periods of GAME_SPEED ms explored
MaxTicks == 4

\* Math.random() is explored on columns 10..10+SpawnSpan of the start row
SpawnSpan == 2

\* Date.now() when the page is loaded, in periods of GAME_SPEED ms
Epoch == 20

\* completed gestures are explored up to SwipeSlack px on either side of the
\* threshold
SwipeSlack == 1

\* longest walk of the round trips over the torus
MaxSteps == 5

MaxClock == (Epoch + MaxTicks) * GAME_SPEED

----------------------------------------------------------------------------
(* Values *)

Cell(cx, cy) == [x |-> cx, y |-> cy]

Up == Cell(0, -1)

Down == Cell(0, 1)

Left == Cell(-1, 0)

Right == Cell(1, 0)

Dirs == {Up, Down, Left, Right}

Zero == Cell(0, 0)

Opposite(d) == Cell(0 - d.x, 0 - d.y)

NoPoint == [none |-> TRUE]

NoSnap == [none |-> TRUE]

Abs(n) == IF n < 0 THEN 0 - n ELSE n

InitialSnake == <<Cell(10, 10), Cell(9, 10), Cell(8, 10)>>

\* the cells Math.random() is explored on: the start row from the head's cell
\* on, and one cell that no entity reaches within MaxTicks, so that a free
\* cell is always among them
RandomCells ==
    {Cell(cx, 10) : cx \in 10..(10 + SpawnSpan)} \cup {Cell(20, 20)}

Occupies(s, c) == \E i \in 1..Len(s) : s[i] = c

\* variant: the sample is kept even when it lies on the snake
spawnFoodAnywhere(s) == RandomCells

\* the cells spawnFood() can leave in `food`: a sampled cell off the snake
spawnFood(s) == {c \in RandomCells : ~Occupies(s, c)}

----------------------------------------------------------------------------
(* Timers *)

\* the handle setInterval() returns: a positive integer that names no
\* scheduled interval (the least one)
setInterval(T) ==
    CHOOSE h \in 1..(Cardinality(T) + 1) :
        /\ h \notin T
        /\ \A k \in 1..(h - 1) : k \in T

clearInterval(T, id) == T \ {id}

----------------------------------------------------------------------------
(* Session routines: each constrains isGameRunning, isPaused, gameLoopId    *)
(* and timers, and nothing else.                                            *)

sess == <<isGameRunning, isPaused, gameLoopId, timers>>

\* variant: the handle is dropped without clearInterval
stopLoopLeak ==
    /\ gameLoopId' = 0
    /\ UNCHANGED timers

\* if (gameLoopId) { clearInterval(gameLoopId); gameLoopId = null; }
stopLoop ==
    /\ timers' = clearInterval(timers, gameLoopId)
    /\ gameLoopId' = 0

\* variant: a new interval is scheduled without clearing the old one
restartLoopNoClear ==
    /\ gameLoopId' = setInterval(timers)
    /\ timers' = timers \cup {gameLoopId'}

\* if (gameLoopId) clearInterval(gameLoopId); gameLoopId = setInterval(...)
restartLoop ==
    /\ gameLoopId' = setInterval(clearInterval(timers, gameLoopId))
    /\ timers' = clearInterval(timers, gameLoopId) \cup {gameLoopId'}

\* variant: the pause flags are set but the interval keeps running
pauseGameKeepLoop ==
    IF ~isGameRunning \/ (policy = "wrap" /\ isPaused)
    THEN UNCHANGED sess
    ELSE /\ isPaused' = TRUE
         /\ isGameRunning' = (policy = "wrap")
         /\ UNCHANGED <<gameLoopId, timers>>

pauseGame ==
    IF policy = "bounded"
    THEN IF ~isGameRunning
         THEN UNCHANGED sess
         ELSE /\ isPaused' = TRUE
              /\ isGameRunning' = FALSE
              /\ stopLoop
    ELSE IF ~isGameRunning \/ isPaused
         THEN UNCHANGED sess
         ELSE /\ isPaused' = TRUE
              /\ stopLoop
              /\ UNCHANGED isGameRunning

\* variant: resume without the isPaused guard
resumeGameUnguarded ==
    /\ isPaused' = FALSE
    /\ isGameRunning' = TRUE
    /\ restartLoop

\* variant: resume sets the flags and schedules nothing
resumeGameNoTimer ==
    IF ~isPaused \/ (policy = "wrap" /\ ~isGameRunning)
    THEN UNCHANGED sess
    ELSE /\ isPaused' = FALSE
         /\ isGameRunning' = TRUE
         /\ UNCHANGED <<gameLoopId, timers>>

resumeGame ==
    IF policy = "bounded"
    THEN IF ~isPaused
         THEN UNCHANGED sess
         ELSE /\ isPaused' = FALSE
              /\ isGameRunning' = TRUE
              /\ restartLoop
    ELSE IF ~isGameRunning \/ ~isPaused
         THEN UNCHANGED sess
         ELSE /\ isPaused' = FALSE
              /\ UNCHANGED isGameRunning
              /\ IF gameLoopId = 0
                 THEN /\ gameLoopId' = setInterval(timers)
                      /\ timers' = timers \cup {gameLoopId'}
                 ELSE UNCHANGED <<gameLoopId, timers>>

togglePause ==
    IF policy = "wrap" /\ ~isGameRunning
    THEN UNCHANGED sess
    ELSE IF isPaused THEN resumeGame ELSE pauseGame

\* variant: the session ends but the interval is not cleared
gameOverKeepLoop ==
    /\ isGameRunning' = FALSE
    /\ isPaused' = (policy = "bounded" /\ isPaused)
    /\ UNCHANGED <<gameLoopId, timers>>

gameOver ==
    IF policy = "bounded"
    THEN /\ isGameRunning' = FALSE
         /\ timers' = clearInterval(timers, gameLoopId)
         /\ UNCHANGED <<gameLoopId, isPaused>>
    ELSE /\ stopLoop
         /\ isGameRunning' = FALSE
         /\ isPaused' = FALSE

----------------------------------------------------------------------------
(* Observation of a step.  `event` is the last step that was a start (with  *)
(* the session state it came from), a tick (by outcome), a pause, a resume  *)
(* or a directional request (with the direction asked for); `pauseSnap` is  *)
(* the snapshot the last pause took.  No handler reads them.                *)

SessionState ==
    IF isPaused THEN "Paused"
    ELSE IF isGameRunning THEN "Running"
    ELSE IF snake = <<>> THEN "Idle"
    ELSE "Lost"

Snapshot == [snake |-> snake, food |-> food, score |-> score, dir |-> direction]

Ev(op, arg) == [op |-> op, arg |-> arg]

Quiet == Ev("quiet", Zero)

\* a pointer-down at p: observed, like Quiet, only if it pauses or resumes,
\* and then with the point
QuietAt(p) == Ev("quiet", p)

Observe(ev) ==
    /\ event' = IF ev.op # "quiet" THEN ev
                ELSE IF ~isPaused /\ isPaused' THEN Ev("pause", ev.arg)
                ELSE IF isPaused /\ ~isPaused' THEN Ev("resume", ev.arg)
                ELSE event
    /\ pauseSnap' =
         IF ~isPaused /\ isPaused'
         THEN [snap |-> Snapshot, inputs |-> FALSE]
         ELSE IF pauseSnap = NoSnap \/ ~isPaused \/ ev.op = "start"
         THEN NoSnap
         ELSE IF isPaused' /\ ev.op = "input"
         THEN [pauseSnap EXCEPT !.inputs = TRUE]
         ELSE pauseSnap

----------------------------------------------------------------------------
(* Simulation step *)

\* variant: the two components of the direction are exchanged
NextHeadSwapped(pol, h, d) ==
    IF pol = "bounded"
    THEN Cell(h.x + d.y, h.y + d.x)
    ELSE Cell((h.x + d.y + TILE_COUNT) % TILE_COUNT,
              (h.y + d.x + TILE_COUNT) % TILE_COUNT)

\* variant: the toroidal candidate is the plain sum too
NextHeadNoWrap(pol, h, d) == Cell(h.x + d.x, h.y + d.y)

\* variant: the toroidal candidate is held at the edge
NextHeadClamped(pol, h, d) ==
    IF pol = "bounded"
    THEN Cell(h.x + d.x, h.y + d.y)
    ELSE Cell(IF h.x + d.x < 0 THEN 0
              ELSE IF h.x + d.x >= TILE_COUNT THEN TILE_COUNT - 1
              ELSE h.x + d.x,
              IF h.y + d.y < 0 THEN 0
              ELSE IF h.y + d.y >= TILE_COUNT THEN TILE_COUNT - 1
              ELSE h.y + d.y)

\* candidate head: plain sum (bounded) or wrapped sum (toroidal)
NextHead(pol, h, d) ==
    IF pol = "bounded"
    THEN Cell(h.x + d.x, h.y + d.y)
    ELSE Cell((h.x + d.x + TILE_COUNT) % TILE_COUNT,
              (h.y + d.y + TILE_COUNT) % TILE_COUNT)

\* variant: the wall is one cell further out
OutOfRangeLate(c) == c.x < -1 \/ c.x > TILE_COUNT \/ c.y < -1 \/ c.y > TILE_COUNT

OutOfRange(c) == c.x < 0 \/ c.x >= TILE_COUNT \/ c.y < 0 \/ c.y >= TILE_COUNT

\* variant: the wall check is missing
CollisionSelfOnly(pol, s, c) == Occupies(s, c)

\* variant: the cell the tail is about to leave does not count
CollisionIgnoreTail(pol, s, c) ==
    \/ pol = "bounded" /\ OutOfRange(c)
    \/ \E i \in 1..(Len(s) - 1) : s[i] = c

\* variant: the body is not checked
CollisionWallOnly(pol, s, c) == pol = "bounded" /\ OutOfRange(c)

\* terminal collision of the candidate head against the pre-move body
Collision(pol, s, c) ==
    \/ pol = "bounded" /\ OutOfRange(c)
    \/ Occupies(s, c)

\* variant: the tail is never dropped
AdvanceNoPop(s, head, f) == <<head>> \o s

\* variant: the tail is dropped on the food too
AdvancePopAlways(s, head, f) == <<head>> \o SubSeq(s, 1, Len(s) - 1)

\* variant: the old head is dropped instead of the tail
AdvanceShift(s, head, f) ==
    IF head = f
    THEN <<head>> \o s
    ELSE <<head>> \o SubSeq(s, 2, Len(s))

\* snake.unshift(head), and snake.pop() unless the head is on the food
Advance(s, head, f) ==
    IF head = f
    THEN <<head>> \o s
    ELSE <<head>> \o SubSeq(s, 1, Len(s) - 1)

\* variant: every move scores
ScoredAlways(sc, head, f) == sc + 1

\* score++ on the food
Scored(sc, head, f) == IF head = f THEN sc + 1 ELSE sc

\* variant: the head is put on the body before the collision ends the tick
updateMoveThenCheck ==
    /\ direction' = nextDirection
    /\ LET head == NextHead(policy, snake[1], nextDirection) IN
         IF Collision(policy, snake, head)
         THEN /\ gameOver
              /\ snake' = <<head>> \o SubSeq(snake, 1, Len(snake) - 1)
              /\ UNCHANGED <<food, score>>
              /\ Observe(Ev("lost", Zero))
         ELSE /\ UNCHANGED sess
              /\ snake' = Advance(snake, head, food)
              /\ score' = Scored(score, head, food)
              /\ IF head = food
                 THEN /\ food' \in spawnFood(snake')
                      /\ Observe(Ev("eat", Zero))
                 ELSE /\ UNCHANGED food
                      /\ Observe(Ev("move", Zero))

\* variant: the candidate head is built from the direction committed by the
\* previous tick
updateCommitLate ==
    /\ direction' = nextDirection
    /\ LET head == NextHead(policy, snake[1], direction) IN
         IF Collision(policy, snake, head)
         THEN /\ gameOver
              /\ UNCHANGED <<snake, food, score>>
              /\ Observe(Ev("lost", Zero))
         ELSE /\ UNCHANGED sess
              /\ snake' = Advance(snake, head, food)
              /\ score' = Scored(score, head, food)
              /\ IF head = food
                 THEN /\ food' \in spawnFood(snake')
                      /\ Observe(Ev("eat", Zero))
                 ELSE /\ UNCHANGED food
                      /\ Observe(Ev("move", Zero))

update ==
    /\ direction' = nextDirection
    /\ LET head == NextHead(policy, snake[1], nextDirection) IN
         IF Collision(policy, snake, head)
         THEN /\ gameOver
              /\ UNCHANGED <<snake, food, score>>
              /\ Observe(Ev("lost", Zero))
         ELSE /\ UNCHANGED sess
              /\ snake' = Advance(snake, head, food)
              /\ score' = Scored(score, head, food)
              /\ IF head = food
                 THEN /\ food' \in spawnFood(snake')
                      /\ Observe(Ev("eat", Zero))
                 ELSE /\ UNCHANGED food
                      /\ Observe(Ev("move", Zero))

\* the interval callback gameLoop(): update(), then draw(); a scheduled
\* interval fires every GAME_SPEED ms
Tick ==
    /\ timers # {}
    /\ clock < MaxClock
    /\ clock' = clock + GAME_SPEED
    /\ update
    /\ UNCHANGED <<policy, nextDirection, swipeStart, lastTap>>

\* GAME_SPEED ms pass with no interval scheduled
Wait ==
    /\ timers = {}
    /\ clock < MaxClock
    /\ clock' = clock + GAME_SPEED
    /\ UNCHANGED <<policy, snake, direction, nextDirection, food, score, sess,
                   swipeStart, lastTap, event, pauseSnap>>

----------------------------------------------------------------------------
(* Ticks in which a call made by gameLoop() throws.  The bounded gameLoop   *)
(* has no handler: the exception leaves the callback and the interval stays *)
(* scheduled.  The toroidal gameLoop catches it, clears the interval and    *)
(* nulls the handle.  Either way the assignments made before the throw      *)
(* stay.                                                                    *)

\* variant: the toroidal catch block reports the error and clears nothing
thrownKeepLoop == UNCHANGED <<gameLoopId, timers>>

\* what gameLoop() does with an exception of update() or draw()
thrown ==
    IF policy = "bounded"
    THEN UNCHANGED <<gameLoopId, timers>>
    ELSE stopLoop

\* a tick in which draw() throws, after update() has returned
TickDrawThrows ==
    /\ timers # {}
    /\ clock < MaxClock
    /\ clock' = clock + GAME_SPEED
    /\ direction' = nextDirection
    /\ LET head == NextHead(policy, snake[1], nextDirection) IN
         IF Collision(policy, snake, head)
         THEN /\ gameOver
              /\ UNCHANGED <<snake, food, score>>
         ELSE /\ UNCHANGED <<isGameRunning, isPaused>>
              /\ thrown
              /\ snake' = Advance(snake, head, food)
              /\ score' = Scored(score, head, food)
              /\ IF head = food
                 THEN food' \in spawnFood(snake')
                 ELSE UNCHANGED food
    /\ Observe(Ev("throw", "draw"))
    /\ UNCHANGED <<policy, nextDirection, swipeStart, lastTap>>

\* a consuming tick in which playMeow() throws: update() is left after
\* snake.unshift(head) and score++, before spawnFood()
TickMeowThrows ==
    /\ timers # {}
    /\ clock < MaxClock
    /\ clock' = clock + GAME_SPEED
    /\ direction' = nextDirection
    /\ LET head == NextHead(policy, snake[1], nextDirection) IN
         /\ ~Collision(policy, snake, head)
         /\ head = food
         /\ snake' = Advance(snake, head, food)
         /\ score' = Scored(score, head, food)
    /\ UNCHANGED <<food, isGameRunning, isPaused>>
    /\ thrown
    /\ Observe(Ev("throw", "playMeow"))
    /\ UNCHANGED <<policy, nextDirection, swipeStart, lastTap>>

\* a consuming tick after which every cell is an entity cell: spawnFood()
\* calls itself until the call stack overflows, and the RangeError leaves
\* update() with the last sample in `food`
TickSpawnOverflows ==
    /\ timers # {}
    /\ clock < MaxClock
    /\ clock' = clock + GAME_SPEED
    /\ direction' = nextDirection
    /\ LET head == NextHead(policy, snake[1], nextDirection) IN
         /\ ~Collision(policy, snake, head)
         /\ head = food
         /\ snake' = Advance(snake, head, food)
         /\ score' = Scored(score, head, food)
    /\ Len(snake') = TILE_COUNT * TILE_COUNT
    /\ food' \in RandomCells
    /\ UNCHANGED <<isGameRunning, isPaused>>
    /\ thrown
    /\ Observe(Ev("throw", "spawnFood"))
    /\ UNCHANGED <<policy, nextDirection, swipeStart, lastTap>>

----------------------------------------------------------------------------
(* Commands *)

\* variant: the score of the previous session is kept
resetKeepScore ==
    /\ snake' = InitialSnake
    /\ direction' = Right
    /\ nextDirection' = Right
    /\ UNCHANGED score
    /\ isGameRunning' = TRUE
    /\ isPaused' = FALSE

\* variant: the pending direction of the previous session is kept
resetKeepPending ==
    /\ snake' = InitialSnake
    /\ direction' = Right
    /\ UNCHANGED nextDirection
    /\ score' = 0
    /\ isGameRunning' = TRUE
    /\ isPaused' = FALSE

\* the "Reset State" block of startGame()
resetState ==
    /\ snake' = InitialSnake
    /\ direction' = Right
    /\ nextDirection' = Right
    /\ score' = 0
    /\ isGameRunning' = TRUE
    /\ isPaused' = FALSE

StartGame ==
    /\ resetState
    /\ food' \in spawnFood(snake')
    /\ restartLoop
    /\ Observe(Ev("start", SessionState))
    /\ UNCHANGED <<policy, swipeStart, lastTap, clock>>

PauseCmd ==
    /\ pauseGame
    /\ Observe(Quiet)
    /\ UNCHANGED <<policy, snake, direction, nextDirection, food, score,
                   swipeStart, lastTap, clock>>

ResumeCmd ==
    /\ resumeGame
    /\ Observe(Quiet)
    /\ UNCHANGED <<policy, snake, direction, nextDirection, food, score,
                   swipeStart, lastTap, clock>>

\* a click event on the pause button alone (in the toroidal page: one that
\* no pointer press precedes, as from the keyboard)
ToggleCmd ==
    /\ togglePause
    /\ Observe(Quiet)
    /\ UNCHANGED <<policy, snake, direction, nextDirection, food, score,
                   swipeStart, lastTap, clock>>

\* pauseGame() called directly, the call observed with the state it came in
PauseCall ==
    /\ pauseGame
    /\ Observe(Ev("pauseGame", SessionState))
    /\ UNCHANGED <<policy, snake, direction, nextDirection, food, score,
                   swipeStart, lastTap, clock>>

\* resumeGame() called directly, the call observed with the state it came in
ResumeCall ==
    /\ resumeGame
    /\ Observe(Ev("resumeGame", SessionState))
    /\ UNCHANGED <<policy, snake, direction, nextDirection, food, score,
                   swipeStart, lastTap, clock>>

----------------------------------------------------------------------------
(* Directional input *)

\* variant: every request is stored
TurnAcceptAll(dir, next, req) == req

\* variant: only the exact opposite of the committed direction is refused
TurnRejectOpposite(dir, next, req) == IF req = Opposite(dir) THEN next ELSE req

\* the guarded assignment of handleInput and onPointerUp: a vertical request
\* is stored when direction.y === 0, a horizontal one when direction.x === 0
Turn(dir, next, req) ==
    IF req.x = 0
    THEN IF dir.y = 0 THEN req ELSE next
    ELSE IF dir.x = 0 THEN req ELSE next

Keys == {"ArrowUp", "ArrowDown", "ArrowLeft", "ArrowRight", "Space"}

KeyDir(k) ==
    CASE k = "ArrowUp" -> Up
      [] k = "ArrowDown" -> Down
      [] k = "ArrowLeft" -> Left
      [] k = "ArrowRight" -> Right
      [] OTHER -> Zero

\* variant: key presses are refused while Paused as well
handleInputRunningOnly(k) ==
    /\ IF ~isGameRunning \/ isPaused
       THEN UNCHANGED <<sess, nextDirection>>
       ELSE IF k = "Space"
       THEN /\ IF policy = "wrap" THEN togglePause ELSE UNCHANGED sess
            /\ UNCHANGED nextDirection
       ELSE /\ nextDirection' = Turn(direction, nextDirection, KeyDir(k))
            /\ UNCHANGED sess
    /\ Observe(IF k = "Space" THEN Quiet ELSE Ev("input", KeyDir(k)))
    /\ UNCHANGED <<policy, snake, direction, food, score, swipeStart, lastTap,
                   clock>>

\* keydown listener
handleInput(k) ==
    /\ IF ~isGameRunning
       THEN UNCHANGED <<sess, nextDirection>>
       ELSE IF k = "Space"
       THEN /\ IF policy = "wrap" THEN togglePause ELSE UNCHANGED sess
            /\ UNCHANGED nextDirection
       ELSE /\ nextDirection' = Turn(direction, nextDirection, KeyDir(k))
            /\ UNCHANGED sess
    /\ Observe(IF k = "Space" THEN Quiet ELSE Ev("input", KeyDir(k)))
    /\ UNCHANGED <<policy, snake, direction, food, score, swipeStart, lastTap,
                   clock>>

\* variant: a tie of the two magnitudes goes to the horizontal axis
swipeDirTieHorizontal(dx, dy) ==
    IF Abs(dx) < threshold /\ Abs(dy) < threshold
    THEN Zero
    ELSE IF Abs(dx) >= Abs(dy)
    THEN IF dx > 0 THEN Right ELSE Left
    ELSE IF dy > 0 THEN Down ELSE Up

\* the direction a completed gesture asks for; Zero when it is too short
swipeDir(dx, dy) ==
    IF Abs(dx) < threshold /\ Abs(dy) < threshold
    THEN Zero
    ELSE IF Abs(dx) > Abs(dy)
    THEN IF dx > 0 THEN Right ELSE Left
    ELSE IF dy > 0 THEN Down ELSE Up

\* pointer positions explored: pointer-downs and pointer-ups on the canvas
DownPoints == {Cell(100, 100)}

UpPoints == {Cell(100, 100), Cell(130, 100), Cell(70, 100), Cell(100, 130),
             Cell(100, 70), Cell(130, 130)}

\* variant: the time test is the wrong way round
isDoubleTapLate(now, p, tap) ==
    /\ now - tap.t > doubleTapTimeout
    /\ (p.x - tap.x) * (p.x - tap.x) + (p.y - tap.y) * (p.y - tap.y)
         < doubleTapDist * doubleTapDist

\* now - lastTap.t < doubleTapTimeout && Math.hypot(dx, dy) < doubleTapDist
isDoubleTap(now, p, tap) ==
    /\ now - tap.t < doubleTapTimeout
    /\ (p.x - tap.x) * (p.x - tap.x) + (p.y - tap.y) * (p.y - tap.y)
         < doubleTapDist * doubleTapDist

\* variant: the tap memory is not cleared when a double-tap fires
onPointerDownKeepTap(p) ==
    /\ IF ~isGameRunning
       THEN UNCHANGED <<sess, swipeStart, lastTap, clock>>
       ELSE IF policy = "bounded"
       THEN /\ swipeStart' = p
            /\ UNCHANGED <<sess, lastTap, clock>>
       ELSE /\ UNCHANGED clock
            /\ IF isDoubleTap(clock, p, lastTap)
               THEN /\ UNCHANGED lastTap
                    /\ togglePause
                    /\ UNCHANGED swipeStart
               ELSE /\ lastTap' = [t |-> clock, x |-> p.x, y |-> p.y]
                    /\ swipeStart' = p
                    /\ UNCHANGED sess
    /\ Observe(QuietAt(p))
    /\ UNCHANGED <<policy, snake, direction, nextDirection, food, score>>

onPointerDown(p) ==
    /\ IF ~isGameRunning
       THEN UNCHANGED <<sess, swipeStart, lastTap, clock>>
       ELSE IF policy = "bounded"
       THEN /\ swipeStart' = p
            /\ UNCHANGED <<sess, lastTap, clock>>
       ELSE /\ UNCHANGED clock
            /\ IF isDoubleTap(clock, p, lastTap)
               THEN /\ lastTap' = [lastTap EXCEPT !.t = 0]
                    /\ togglePause
                    /\ UNCHANGED swipeStart
               ELSE /\ lastTap' = [t |-> clock, x |-> p.x, y |-> p.y]
                    /\ swipeStart' = p
                    /\ UNCHANGED sess
    /\ Observe(QuietAt(p))
    /\ UNCHANGED <<policy, snake, direction, nextDirection, food, score>>

onPointerUp(q) ==
    /\ UNCHANGED sess
    /\ IF swipeStart = NoPoint
       THEN /\ UNCHANGED <<nextDirection, swipeStart>>
            /\ Observe(Quiet)
       ELSE LET req == swipeDir(q.x - swipeStart.x, q.y - swipeStart.y) IN
            /\ nextDirection' = IF req = Zero
                                THEN nextDirection
                                ELSE Turn(direction, nextDirection, req)
            /\ swipeStart' = NoPoint
            /\ Observe(IF req = Zero THEN Quiet ELSE Ev("input", req))
    /\ UNCHANGED <<policy, snake, direction, food, score, lastTap, clock>>

onPointerCancel ==
    /\ UNCHANGED sess
    /\ swipeStart' = NoPoint
    /\ Observe(Quiet)
    /\ UNCHANGED <<policy, snake, direction, nextDirection, food, score,
                   lastTap, clock>>

\* togglePause() of the toroidal variant as a function of the session
\* record [run, paused, id, T]: the flags, the handle and the scheduled set
togglePauseOf(s) ==
    IF ~s.run
    THEN s
    ELSE IF s.paused
    THEN [run |-> s.run,
          paused |-> FALSE,
          id |-> IF s.id = 0 THEN setInterval(s.T) ELSE s.id,
          T |-> IF s.id = 0 THEN s.T \cup {setInterval(s.T)} ELSE s.T]
    ELSE [run |-> s.run,
          paused |-> TRUE,
          id |-> 0,
          T |-> clearInterval(s.T, s.id)]

\* one activation of the pause button of the toroidal page: the pointerup
\* listener installed by makeButtonSafe calls togglePause(), then the click
\* that the same press produces reaches the click listener, which calls
\* togglePause() again
PauseButton ==
    /\ policy = "wrap"
    /\ LET s0 == [run |-> isGameRunning, paused |-> isPaused,
                  id |-> gameLoopId, T |-> timers]
           s1 == togglePauseOf(s0)
           s2 == togglePauseOf(s1)
       IN  /\ isGameRunning' = s2.run
           /\ isPaused' = s2.paused
           /\ gameLoopId' = s2.id
           /\ timers' = s2.T
    /\ Observe(Ev("button", SessionState))
    /\ UNCHANGED <<policy, snake, direction, nextDirection, food, score,
                   swipeStart, lastTap, clock>>

KeyDown == \E k \in Keys : handleInput(k)

PointerDown == \E p \in DownPoints : onPointerDown(p)

PointerUp == \E q \in UpPoints : onPointerUp(q)

\* displacements explored for completed gestures: none, and on either side
\* of the threshold in both senses
SwipeDeltas ==
    {0} \cup {sgn * (threshold + k) :
                sgn \in {-1, 1}, k \in (0 - SwipeSlack)..SwipeSlack}

\* pointer-up positions of gestures begun at the point of DownPoints
SwipePoints ==
    {Cell(p.x + dx, p.y + dy) : p \in DownPoints, dx \in SwipeDeltas,
                                dy \in SwipeDeltas}

SwipeUp == \E q \in SwipePoints : onPointerUp(q)

----------------------------------------------------------------------------
(* Specification *)

Init ==
    /\ policy \in {"bounded", "wrap"}
    /\ snake = <<>>
    /\ direction = Zero
    /\ nextDirection = Zero
    /\ food = Cell(0, 0)
    /\ score = 0
    /\ gameLoopId = 0
    /\ timers = {}
    /\ isGameRunning = FALSE
    /\ isPaused = FALSE
    /\ swipeStart = NoPoint
    /\ lastTap = [t |-> 0, x |-> 0, y |-> 0]
    /\ clock = Epoch * GAME_SPEED
    /\ event = Ev("init", Zero)
    /\ pauseSnap = NoSnap

Next ==
    \/ StartGame
    \/ Tick
    \/ Wait
    \/ PauseCmd
    \/ ResumeCmd
    \/ ToggleCmd
    \/ KeyDown
    \/ PointerDown
    \/ PointerUp
    \/ onPointerCancel

Spec == Init /\ [][Next]_vars

\* the bounded variant alone (src/main.js)
InitBounded == Init /\ policy = "bounded"

SpecBounded == InitBounded /\ [][Next]_vars

\* the program driven by start, ticks, the keyboard and direct calls of
\* pauseGame() and resumeGame(), every such call observed
NextCommands ==
    \/ StartGame
    \/ Tick
    \/ Wait
    \/ KeyDown
    \/ PauseCall
    \/ ResumeCall

SpecCommands == Init /\ [][NextCommands]_vars

\* the program driven by start, ticks and pointer gestures alone, the
\* gestures ending anywhere in SwipePoints
NextSwipe ==
    \/ StartGame
    \/ Tick
    \/ Wait
    \/ PointerDown
    \/ SwipeUp
    \/ onPointerCancel

SpecSwipe == Init /\ [][NextSwipe]_vars

\* the program driven by start, ticks, the keyboard and the pause button,
\* with draw() and playMeow() free to throw in any tick that calls them
NextFaults ==
    \/ StartGame
    \/ Tick
    \/ TickDrawThrows
    \/ TickMeowThrows
    \/ Wait
    \/ KeyDown
    \/ ToggleCmd

SpecFaults == Init /\ [][NextFaults]_vars

\* a session just started whose target was spawned at (15,10), five
\* periods before the end of the explored time
InitAhead ==
    /\ policy \in {"bounded", "wrap"}
    /\ snake = InitialSnake
    /\ direction = Right
    /\ nextDirection = Right
    /\ food = Cell(15, 10)
    /\ score = 0
    /\ gameLoopId = 1
    /\ timers = {1}
    /\ isGameRunning = TRUE
    /\ isPaused = FALSE
    /\ swipeStart = NoPoint
    /\ lastTap = [t |-> 0, x |-> 0, y |-> 0]
    /\ clock = MaxClock - 5 * GAME_SPEED
    /\ event = Ev("start", "Idle")
    /\ pauseSnap = NoSnap

\* ticks, pauses and pointer taps, and no directional input
NextAhead ==
    \/ Tick
    \/ Wait
    \/ PauseCmd
    \/ ResumeCmd
    \/ ToggleCmd
    \/ PointerDown
    \/ onPointerCancel

SpecAhead == InitAhead /\ [][NextAhead]_vars

\* entities of a session that has run to a corner of the grid without
\* consuming: straight, three cells, the head two cells from the wall ahead
\* and one cell from the wall beside it
EdgeStarts ==
    {[snake |-> <<Cell(TILE_COUNT - 2, 1), Cell(TILE_COUNT - 3, 1),
                  Cell(TILE_COUNT - 4, 1)>>, dir |-> Right],
     [snake |-> <<Cell(1, TILE_COUNT - 2), Cell(2, TILE_COUNT - 2),
                  Cell(3, TILE_COUNT - 2)>>, dir |-> Left]}

\* a Running session near a corner, the last event a tick, the target
\* either straight ahead of the head or far away
InitEdge ==
    /\ policy \in {"bounded", "wrap"}
    /\ \E st \in EdgeStarts :
         /\ snake = st.snake
         /\ direction = st.dir
         /\ nextDirection = st.dir
         /\ food \in {Cell(st.snake[1].x + st.dir.x, st.snake[1].y),
                       Cell(20, 20)}
    /\ score = 0
    /\ gameLoopId = 1
    /\ timers = {1}
    /\ isGameRunning = TRUE
    /\ isPaused = FALSE
    /\ swipeStart = NoPoint
    /\ lastTap = [t |-> 0, x |-> 0, y |-> 0]
    /\ clock = Epoch * GAME_SPEED
    /\ event = Ev("move", Zero)
    /\ pauseSnap = NoSnap

NextEdge ==
    \/ StartGame
    \/ Tick
    \/ Wait
    \/ KeyDown
    \/ ToggleCmd

SpecEdge == InitEdge /\ [][NextEdge]_vars

\* start, ticks, keys and the pause commands
NextLive ==
    \/ StartGame
    \/ Tick
    \/ Wait
    \/ KeyDown
    \/ PauseCmd
    \/ ResumeCmd
    \/ ToggleCmd

\* a scheduled interval keeps firing: the host runs the callback of an
\* interval that stays scheduled
SpecLive == Init /\ [][NextLive]_vars /\ WF_vars(Tick)

\* ticks of the straight run from the start cell (10,10) into the right wall
RunTicks == TILE_COUNT - 10

\* a bounded session just started, RunTicks + 1 periods before the end of the
\* explored time, its target anywhere on the row ahead or off the row
InitRun ==
    /\ policy = "bounded"
    /\ snake = InitialSnake
    /\ direction = Right
    /\ nextDirection = Right
    /\ food \in {Cell(fx, 10) : fx \in 11..(TILE_COUNT - 1)}
                  \cup {Cell(20, 20)}
    /\ score = 0
    /\ gameLoopId = 1
    /\ timers = {1}
    /\ isGameRunning = TRUE
    /\ isPaused = FALSE
    /\ swipeStart = NoPoint
    /\ lastTap = [t |-> 0, x |-> 0, y |-> 0]
    /\ clock = MaxClock - (RunTicks + 1) * GAME_SPEED
    /\ event = Ev("start", "Idle")
    /\ pauseSnap = NoSnap

\* ticks and pointer presses that are cancelled: no directional input, no
\* pause
NextRun ==
    \/ Tick
    \/ Wait
    \/ PointerDown
    \/ onPointerCancel

SpecRun == InitRun /\ [][NextRun]_vars

\* start, ticks, the keyboard (Space toggles the pause) and the pause button
NextButton ==
    \/ StartGame
    \/ Tick
    \/ Wait
    \/ KeyDown
    \/ PauseButton

SpecButton == Init /\ [][NextButton]_vars

\* a closed tour of the grid through every cell: row 0 left to right, rows
\* 1..TILE_COUNT-1 back and forth over columns 1..TILE_COUNT-1, then column
\* 0 upwards; CycleCell(i + 1) is next to CycleCell(i)
CycleCell(i) ==
    LET W == TILE_COUNT - 1
        j == i - TILE_COUNT
    IN  IF i < TILE_COUNT
        THEN Cell(i, 0)
        ELSE IF j < W * W
        THEN Cell(IF (j \div W) % 2 = 0 THEN W - (j % W) ELSE 1 + (j % W),
                  (j \div W) + 1)
        ELSE Cell(0, W - (j - W * W))

\* the entity of a player who followed the tour until one cell is left:
\* head on CycleCell(10), the free cell CycleCell(11) straight ahead
NearlyFullSnake ==
    [i \in 1..(TILE_COUNT * TILE_COUNT - 1) |->
        CycleCell((10 - (i - 1) + TILE_COUNT * TILE_COUNT)
                    % (TILE_COUNT * TILE_COUNT))]

\* a Running session one consuming tick away from a full grid
InitFull ==
    /\ policy \in {"bounded", "wrap"}
    /\ snake = NearlyFullSnake
    /\ direction = Right
    /\ nextDirection = Right
    /\ food = CycleCell(11)
    /\ score = Len(NearlyFullSnake) - Len(InitialSnake)
    /\ gameLoopId = 1
    /\ timers = {1}
    /\ isGameRunning = TRUE
    /\ isPaused = FALSE
    /\ swipeStart = NoPoint
    /\ lastTap = [t |-> 0, x |-> 0, y |-> 0]
    /\ clock = Epoch * GAME_SPEED
    /\ event = Ev("eat", Zero)
    /\ pauseSnap = NoSnap

NextFull ==
    \/ StartGame
    \/ Tick
    \/ TickSpawnOverflows
    \/ Wait
    \/ KeyDown
    \/ ToggleCmd

SpecFull == InitFull /\ [][NextFull]_vars

----------------------------------------------------------------------------
(* Properties *)

Running == isGameRunning /\ ~isPaused

Started == snake # <<>>

Perpendicular(a, b) == a.x * b.x + a.y * b.y = 0

\* C1: the pending direction is never the exact opposite of the committed
\* one, whatever keyboard or swipe requests arrived since the last tick; a
\* request for the opposite of the committed direction leaves the pending
\* direction as it was; a tick commits the pending direction, which is never
\* the opposite of the direction committed before, and, when it commits the
\* same direction again without ending the session, moves the head one cell
\* along it (x+1 for (1,0)).
C1_NoReversal ==
    /\ [](Started => nextDirection # Opposite(direction))
    /\ [][/\ (event'.op = "input" /\ event'.arg = Opposite(direction))
             => nextDirection' = nextDirection
          /\ Tick => /\ direction' = nextDirection
                     /\ direction' # Opposite(direction)
                     /\ (direction' = direction /\ isGameRunning')
                          => snake'[1] = NextHead(policy, snake[1], direction)
                     /\ (direction = Right /\ direction' = Right /\ isGameRunning'
                         /\ snake[1].x < TILE_COUNT - 1)
                          => snake'[1].x = snake[1].x + 1]_vars

\* C1 witness: moving (1,0) after a tick, a Left request was the last event
\* and the pending direction is still (1,0)
C1_Witness ==
    /\ Running
    /\ event = Ev("input", Left)
    /\ direction = Right
    /\ nextDirection = Right
    /\ snake[1].x > 10

\* C2 as stated: while Running, the last directional request, unless it is the
\* exact opposite of the committed direction, is the pending direction
C2_Original ==
    (Running /\ event.op = "input" /\ event.arg # Opposite(direction))
        => nextDirection = event.arg

\* C2 amended: while Running, a request perpendicular to the committed
\* direction becomes the pending direction (last writer wins); a request on the
\* committed axis, equal or opposite to the committed direction, leaves the
\* pending direction as it was
C2_Amended ==
    /\ []((Running /\ event.op = "input" /\ Perpendicular(event.arg, direction))
            => nextDirection = event.arg)
    /\ [][(Running /\ event'.op = "input"
           /\ ~Perpendicular(event'.arg, direction))
            => nextDirection' = nextDirection]_vars

\* C2 witness: moving (1,0) with Up pending, a Right request was the last
\* event and Up is still pending
C2_Witness ==
    /\ Running
    /\ event = Ev("input", Right)
    /\ direction = Right
    /\ nextDirection = Up

\* C3: a tick that ends the session leaves the entity as it was; any other
\* tick makes the length len+1 if the new head is on the target and len
\* otherwise
C3_LengthStep ==
    [][Tick => IF ~isGameRunning'
               THEN snake' = snake
               ELSE Len(snake') = IF snake'[1] = food
                                  THEN Len(snake) + 1
                                  ELSE Len(snake)]_vars

\* C3 witness: a consuming tick was the last event and the entity has 4 cells
C3_Witness == event.op = "eat" /\ Len(snake) = 4

\* C4: the score is never negative; a tick whose new head is on the target
\* adds exactly 1, a start sets it to 0, and no other step changes it
C4_ScoreSteps ==
    /\ [](score >= 0)
    /\ [][/\ (Tick /\ isGameRunning' /\ snake'[1] = food) => score' = score + 1
          /\ StartGame => score' = 0
          /\ score' # score =>
               \/ Tick /\ isGameRunning' /\ snake'[1] = food
               \/ StartGame]_vars

\* C4 witness: two consuming ticks
C4_Witness == event.op = "eat" /\ score = 2

C6_PauseResume ==
    pauseSnap # NoSnap =>
        /\ Snapshot = pauseSnap.snap
        /\ isPaused \/ Running

\* C6 witness: resumed after a pause during which a directional request arrived
C6_Witness ==
    /\ event.op = "resume"
    /\ pauseSnap # NoSnap
    /\ pauseSnap.inputs
    /\ Running
    /\ score > 0

\* C7: an interval is scheduled only while the session is Running, so the
\* timer callback (update) runs only then; none is scheduled while Paused
C7_TickOnlyRunning ==
    /\ [](timers # {} => Running)
    /\ [](isPaused => timers = {})
    /\ [][Tick => Running]_vars

\* C7 witness: paused in mid-game with no interval scheduled
C7_Witness ==
    /\ SessionState = "Paused"
    /\ event.op = "pause"
    /\ Len(snake) > 3
    /\ timers = {}

\* C8: while the session is Lost no interval is scheduled, and every step but
\* a start leaves it Lost with entity cells, target and score unchanged
C8_LostFrozen ==
    /\ [](SessionState = "Lost" => timers = {})
    /\ [][(SessionState = "Lost" /\ ~StartGame)
            => /\ SessionState' = "Lost"
               /\ timers' = {}
               /\ UNCHANGED <<snake, food, score>>]_vars

\* C8 witness: a directional request arrived after the session was lost
C8_Witness == SessionState = "Lost" /\ event.op = "input"

\* C9: right after a start from Idle or Lost the session is Running with the
\* entity [(10,10),(9,10),(8,10)], committed and pending direction (1,0),
\* score 0, the target off the entity and exactly one interval scheduled
C9_StartState ==
    (event.op = "start" /\ event.arg \in {"Idle", "Lost"}) =>
        /\ Running
        /\ snake = <<Cell(10, 10), Cell(9, 10), Cell(8, 10)>>
        /\ direction = Cell(1, 0)
        /\ nextDirection = Cell(1, 0)
        /\ score = 0
        /\ ~Occupies(snake, food)
        /\ Cardinality(timers) = 1
        /\ gameLoopId \in timers

\* C9 witness: a start was the last event, from a session that was Lost
C9_Witness == event = Ev("start", "Lost") /\ Running

\* C10 as stated: a start while Running changes none of entity cells, target,
\* score, committed direction and pending direction
C10_Original ==
    [][(StartGame /\ Running)
         => UNCHANGED <<snake, food, score, direction, nextDirection>>]_vars

\* C10 amended: a start while Running restarts the session: the entity is
\* [(10,10),(9,10),(8,10)] again, committed and pending direction (1,0), score
\* 0, the target respawned off the entity, one interval scheduled, still Running
C10_Amended ==
    [][(StartGame /\ Running)
         => /\ snake' = <<Cell(10, 10), Cell(9, 10), Cell(8, 10)>>
            /\ direction' = Cell(1, 0)
            /\ nextDirection' = Cell(1, 0)
            /\ score' = 0
            /\ ~Occupies(snake', food')
            /\ Cardinality(timers') = 1
            /\ Running']_vars

\* C10 witness: a start arrived while a session that had moved was Running
C10_Witness ==
    /\ event = Ev("start", "Running")
    /\ snake = InitialSnake
    /\ clock > Epoch * GAME_SPEED

\* C11: pauseGame() in a session that is not Running (Paused, Idle or Lost)
\* and resumeGame() in a session that is not Paused (Running, Idle or Lost)
\* change nothing: session state, flags, interval handle, scheduled
\* intervals, entity, target, score and both directions stay as they were
C11_NoOpCalls ==
    [][((PauseCall /\ SessionState # "Running")
        \/ (ResumeCall /\ SessionState # "Paused"))
         => /\ SessionState' = SessionState
            /\ UNCHANGED <<sess, snake, food, score, direction,
                           nextDirection>>]_vars

\* C11 witness: pauseGame() was called in a session already Paused in
\* mid-game, and the session is still Paused
C11_Witness ==
    /\ event = Ev("pauseGame", "Paused")
    /\ SessionState = "Paused"
    /\ Len(snake) > 3

\* C12: a tick that makes the entity fill the grid ends the Running session
\* in a state other than Lost, with no interval scheduled any more (Won)
C12_WonOnFullGrid ==
    [][(Len(snake) < TILE_COUNT * TILE_COUNT
        /\ Len(snake') = TILE_COUNT * TILE_COUNT)
         => /\ ~isGameRunning'
            /\ ~isPaused'
            /\ timers' = {}
            /\ event'.op = "won"]_vars

\* C13 as stated: a tick in which draw() throws, and which does not end the
\* session by a collision, leaves the interval scheduled, so that later ticks
\* keep advancing the entity
C13_Original ==
    [][(TickDrawThrows /\ isGameRunning')
         => (timers' = timers /\ timers' # {})]_vars

\* C13 amended: a tick in which draw() throws leaves entity, target, score,
\* directions and session flags as its update() set them: the pending
\* direction committed, and either the session Lost with entity, target and
\* score untouched, or the head one cell on, the length and the score one
\* more exactly on the target, the target relocated off the entity exactly
\* then, the session Running.  In the bounded variant the interval stays scheduled.  In the
\* toroidal variant the handler of gameLoop clears the interval and the
\* handle: the session is Running with nothing scheduled.
C13_Amended ==
    [][TickDrawThrows =>
         LET head == NextHead(policy, snake[1], nextDirection) IN
         /\ direction' = nextDirection
         /\ nextDirection' = nextDirection
         /\ IF Collision(policy, snake, head)
            THEN /\ UNCHANGED <<snake, food, score>>
                 /\ SessionState' = "Lost"
                 /\ timers' = {}
            ELSE /\ snake'[1] = head
                 /\ Len(snake') = Len(snake) + (IF head = food THEN 1 ELSE 0)
                 /\ score' = score + (IF head = food THEN 1 ELSE 0)
                 /\ IF head = food
                    THEN ~Occupies(snake', food')
                    ELSE food' = food
                 /\ SessionState' = "Running"
                 /\ IF policy = "bounded"
                    THEN timers' = timers /\ timers' # {}
                    ELSE timers' = {} /\ gameLoopId' = 0]_vars

\* C13 witness: in the toroidal variant draw() threw in a tick of a grown
\* entity; the session is Running and nothing is scheduled
C13_Witness ==
    /\ event = Ev("throw", "draw")
    /\ policy = "wrap"
    /\ SessionState = "Running"
    /\ timers = {}
    /\ Len(snake) > 3

\* C14: a consuming tick in which playMeow() throws still relocates the
\* target to a cell that is not an entity cell, and leaves the interval
\* scheduled
C14_MeowThrowHarmless ==
    [][TickMeowThrows
         => /\ ~Occupies(snake', food')
            /\ timers' = timers
            /\ timers' # {}]_vars

\* C15: in a session that is Idle or Lost a key press or a pointer-up changes
\* none of entity, target, score, committed direction and pending direction,
\* also when the pointer went down while the session was Running
C15_IgnoredWhenEnded ==
    [][(SessionState \in {"Idle", "Lost"} /\ (KeyDown \/ PointerUp))
         => UNCHANGED <<snake, food, score, direction, nextDirection>>]_vars

\* C16: in the toroidal variant, while Paused, a request perpendicular to the
\* committed direction becomes the pending direction and any other request
\* leaves the pending direction alone; entity cells, target, score and
\* committed direction stay what they were at the pause; the resume keeps
\* both directions, and the tick that follows the resume commits the pending
\* direction
C16_PausedInput ==
    /\ []((policy = "wrap" /\ isPaused /\ pauseSnap # NoSnap)
            => Snapshot = pauseSnap.snap)
    /\ []((policy = "wrap" /\ isPaused /\ event.op = "input"
           /\ Perpendicular(event.arg, direction))
            => nextDirection = event.arg)
    /\ [][/\ (policy = "wrap" /\ isPaused /\ event'.op = "input"
              /\ ~Perpendicular(event'.arg, direction))
               => nextDirection' = nextDirection
          /\ (policy = "wrap" /\ isPaused /\ ~isPaused'
              /\ event'.op = "resume")
               => UNCHANGED <<direction, nextDirection>>
          /\ (policy = "wrap" /\ Tick /\ event.op = "resume")
               => direction' = nextDirection]_vars

\* C16 witness: the toroidal session was resumed after a pause during which
\* requests arrived; the pending direction differs from the committed one
\* and a tick is due
C16_Witness ==
    /\ policy = "wrap"
    /\ event.op = "resume"
    /\ pauseSnap # NoSnap
    /\ pauseSnap.inputs
    /\ nextDirection # direction
    /\ timers # {}
    /\ clock < MaxClock

\* C17: in the toroidal variant, in a started session (isGameRunning), a
\* pointer-down at the point of the recorded tap and less than 300 ms after
\* it flips the pause flag exactly once (Running to Paused with the interval
\* cleared, Paused to Running with one scheduled) and changes neither
\* direction, nor entity, target or score; any other pointer-down, such as
\* the one that recorded the tap, and every pointer-up that closes a gesture
\* leave the session flags and the interval alone, and a release at the
\* point of the pointer-down leaves both directions alone
C17_DoubleTap ==
    [][/\ \A p \in DownPoints :
            (policy = "wrap" /\ isGameRunning /\ lastTap' # lastTap
             /\ onPointerDown(p))
              => IF /\ lastTap.t > 0
                    /\ clock - lastTap.t < doubleTapTimeout
                    /\ p.x = lastTap.x /\ p.y = lastTap.y
                 THEN /\ isPaused' = ~isPaused
                      /\ isGameRunning'
                      /\ (timers' = {}) = isPaused'
                      /\ Cardinality(timers') <= 1
                      /\ UNCHANGED <<direction, nextDirection, snake, food,
                                     score>>
                 ELSE UNCHANGED <<sess, direction, nextDirection>>
       /\ (swipeStart' # swipeStart /\ (PointerUp \/ PointerDown))
            => UNCHANGED <<sess, direction>>
       /\ (swipeStart # NoPoint /\ swipeStart' = NoPoint
           /\ onPointerUp(swipeStart))
            => UNCHANGED nextDirection]_vars

\* C17 witness: the second tap fired: the last event is its pause, the tap
\* memory holds the tap's point with its time cleared, and no swipe is open
C17_Witness ==
    /\ policy = "wrap"
    /\ event = Ev("pause", Cell(100, 100))
    /\ lastTap = [t |-> 0, x |-> 100, y |-> 100]
    /\ swipeStart = NoPoint
    /\ SessionState = "Paused"

\* C18: in the toroidal variant a pointer-down that toggles the pause clears
\* the time of the tap memory and keeps its point; with the memory cleared
\* (and Date.now() at least the 300 ms window) the next pointer-down toggles
\* nothing and is recorded as a new first tap, with its time and point, and
\* opens a gesture; a pointer-down toggles only when a recorded tap lies less
\* than 300 ms and 40 px behind it
C18_TapMemory ==
    [][\A p \in DownPoints :
         (policy = "wrap" /\ isGameRunning
          /\ (lastTap' # lastTap \/ isPaused' # isPaused)
          /\ onPointerDown(p))
           => /\ isPaused' # isPaused
                 => /\ lastTap' = [lastTap EXCEPT !.t = 0]
                    /\ lastTap.t > 0
                    /\ clock - lastTap.t < doubleTapTimeout
                    /\ (p.x - lastTap.x) * (p.x - lastTap.x)
                       + (p.y - lastTap.y) * (p.y - lastTap.y)
                         < doubleTapDist * doubleTapDist
              /\ (lastTap.t = 0 /\ clock >= doubleTapTimeout)
                 => /\ UNCHANGED sess
                    /\ lastTap' = [t |-> clock, x |-> p.x, y |-> p.y]
                    /\ swipeStart' = p]_vars

\* C18 witness: a double-tap resumed the session and, before any tick, a third
\* pointer-down at the same point was recorded as a new tap; the session is
\* still Running
C18_Witness ==
    /\ policy = "wrap"
    /\ event = Ev("resume", Cell(100, 100))
    /\ SessionState = "Running"
    /\ lastTap = [t |-> clock, x |-> 100, y |-> 100]
    /\ swipeStart = Cell(100, 100)

Max(a, b) == IF a >= b THEN a ELSE b

\* the request C19 describes for a displacement (dx, dy); Zero for none
RequestOf(dx, dy) ==
    IF Max(Abs(dx), Abs(dy)) < 30
    THEN Zero
    ELSE IF Abs(dx) > Abs(dy)
    THEN (IF dx > 0 THEN Right ELSE Left)
    ELSE (IF dy > 0 THEN Down ELSE Up)

\* C19: for a gesture in progress and every pointer-up position, with
\* displacement (dx, dy), the request computed is none if max(|dx|, |dy|) <
\* 30, and otherwise Right or Left by the sign of dx when |dx| > |dy|, and
\* Down or Up by the sign of dy when |dx| <= |dy|; the step that completes a
\* gesture either produces no request and leaves the pending direction, or
\* produces such a request and treats it as a key press is treated: stored
\* as the pending direction when perpendicular to the committed direction,
\* ignored when opposite or equal to it
C19_SwipeDirection ==
    /\ [](swipeStart # NoPoint =>
            \A q \in SwipePoints :
                swipeDir(q.x - swipeStart.x, q.y - swipeStart.y)
                  = RequestOf(q.x - swipeStart.x, q.y - swipeStart.y))
    /\ [][(swipeStart # NoPoint /\ swipeStart' = NoPoint) =>
            \/ UNCHANGED <<nextDirection, event>>
            \/ /\ event'.op = "input"
               /\ \E q \in SwipePoints :
                     event'.arg = RequestOf(q.x - swipeStart.x,
                                            q.y - swipeStart.y)
               /\ nextDirection' =
                    IF Perpendicular(event'.arg, direction)
                    THEN event'.arg
                    ELSE nextDirection]_vars

\* C19 witness: moving (1,0), a gesture was completed downwards and (0,1) is
\* pending
C19_Witness ==
    /\ Running
    /\ event = Ev("input", Down)
    /\ swipeStart = NoPoint
    /\ direction = Right
    /\ nextDirection = Down

\* C20: from the entity [(10,10),(9,10),(8,10)] moving (1,0) on the 30x30
\* grid with the target at (15,10), and with no directional input, every tick
\* moves the head one cell to the right on row 10; through the first four
\* ticks the score is 0 and the length 3; the fifth tick puts the head on
\* (15,10) with score 1, length 4 and the session Running
C20_FiveTicks ==
    /\ [](/\ snake[1].y = 10
          /\ direction = Right
          /\ snake[1].x \in 10..15
          /\ snake[1].x < 15 => (score = 0 /\ Len(snake) = 3)
          /\ clock = MaxClock - 5 * GAME_SPEED => snake = InitialSnake)
    /\ [][Tick =>
            /\ snake'[1] = Cell(snake[1].x + 1, 10)
            /\ snake[1].x = 14 =>
                 /\ snake' = <<Cell(15, 10), Cell(14, 10), Cell(13, 10),
                               Cell(12, 10)>>
                 /\ score' = 1
                 /\ SessionState' = "Running"
                 /\ timers' # {}]_vars

\* C20 witness: five ticks in a row from the start: the head is on (15,10)
\* at the end of the fifth period, the last event is the consuming tick
C20_Witness ==
    /\ clock = MaxClock
    /\ event.op = "eat"
    /\ snake[1] = Cell(15, 10)
    /\ score = 1
    /\ Len(snake) = 4
    /\ SessionState = "Running"

\* C21: in the bounded variant a tick whose candidate head (head plus pending
\* direction) has x or y outside 0..TILE_COUNT-1 makes the session Lost and
\* leaves the entity without the candidate; no cell of the entity is ever
\* outside the grid, and no tick puts the head on a clamped or wrapped
\* coordinate
C21_WallEndsSession ==
    /\ [](policy = "bounded" =>
            \A i \in 1..Len(snake) :
                /\ snake[i].x \in 0..(TILE_COUNT - 1)
                /\ snake[i].y \in 0..(TILE_COUNT - 1))
    /\ [][(/\ policy = "bounded"
           /\ Tick
           /\ \/ snake[1].x + nextDirection.x \notin 0..(TILE_COUNT - 1)
              \/ snake[1].y + nextDirection.y \notin 0..(TILE_COUNT - 1))
          => /\ SessionState' = "Lost"
             /\ snake' = snake]_vars

\* C21 witness: the bounded session was lost with the head in the last
\* column and (1,0) committed, the candidate being in column TILE_COUNT
C21_Witness ==
    /\ policy = "bounded"
    /\ SessionState = "Lost"
    /\ event.op = "lost"
    /\ snake[1].x = TILE_COUNT - 1
    /\ direction = Right

\* C22: in the toroidal variant the candidate head of a tick is
\* ((x+dx+30) mod 30, (y+dy+30) mod 30) for head (x,y) and pending direction
\* (dx,dy): unless that cell is on the pre-move body it becomes the head and
\* the session stays Running, so a head on an edge moving outward re-enters
\* at the opposite edge; a tick ends the session only when the candidate is
\* a cell of the body
C22_WrapAround ==
    [][(policy = "wrap" /\ Tick) =>
        LET c == Cell((snake[1].x + nextDirection.x + 30) % 30,
                      (snake[1].y + nextDirection.y + 30) % 30)
        IN  /\ ~Occupies(snake, c) =>
                 /\ snake'[1] = c
                 /\ SessionState' = "Running"
            /\ SessionState' = "Lost" => Occupies(snake, c)
            /\ (snake[1].x = 29 /\ nextDirection = Right) => c.x = 0
            /\ (snake[1].x = 0 /\ nextDirection = Left) => c.x = 29
            /\ (snake[1].y = 29 /\ nextDirection = Down) => c.y = 0
            /\ (snake[1].y = 0 /\ nextDirection = Up) => c.y = 29]_vars

\* C22 witness: the toroidal session is Running after a tick that took the
\* head from the first row to the last one
C22_Witness ==
    /\ policy = "wrap"
    /\ SessionState = "Running"
    /\ event.op = "move"
    /\ direction = Up
    /\ snake[1].y = TILE_COUNT - 1
    /\ snake[2].y = 0

\* n unit steps d from cell c under the toroidal coordinate rule
RECURSIVE Walk(_, _, _)
Walk(c, d, n) ==
    IF n = 0 THEN c ELSE Walk(NextHead("wrap", c, d), d, n - 1)

\* C23: under the toroidal coordinate rule, N unit steps along an axis
\* followed by N opposite unit steps end on the starting cell: for every
\* head cell reached in every state, and, taken once at the start of the
\* run, for every cell of the grid (those within N cells of an edge cross
\* it); every direction, every N from 0 to MaxSteps
C23_RoundTrip ==
    /\ \A d \in Dirs : \A n \in 0..MaxSteps :
           Walk(Walk(snake[1], d, n), Opposite(d), n) = snake[1]
    /\ (clock = Epoch * GAME_SPEED /\ event.op = "move") =>
           \A x \in 0..(TILE_COUNT - 1) : \A y \in 0..(TILE_COUNT - 1) :
               \A d \in Dirs : \A n \in 0..MaxSteps :
                   Walk(Walk(Cell(x, y), d, n), Opposite(d), n) = Cell(x, y)

\* C23 witness: the head stands in the last column after crossing the left
\* edge, so the steps back from it cross the edge again
C23_Witness ==
    /\ policy = "wrap"
    /\ event.op = "move"
    /\ direction = Left
    /\ snake[1].x = TILE_COUNT - 1
    /\ snake[2].x = 0

\* C24: at most one repeating tick timer is scheduled in any state, and a
\* scheduled timer is the one gameLoopId names (so the next start, pause or
\* resume cancels it before scheduling another), whatever sequence of start,
\* pause, resume and toggle commands led there
C24_SingleTimer ==
    /\ Cardinality(timers) <= 1
    /\ timers \subseteq {gameLoopId}

\* C24 witness: a start command came while the session was Running with a
\* timer scheduled; one timer is scheduled after it
C24_Witness ==
    /\ event = Ev("start", "Running")
    /\ Cardinality(timers) = 1
    /\ gameLoopId \in timers

\* C25: a tick whose candidate head (head plus pending direction, wrapped in
\* the toroidal variant) equals any cell of the body as it is before the move,
\* the last cell included, makes the session Lost
C25_SelfCollision ==
    [][Tick =>
        LET c == IF policy = "bounded"
                 THEN Cell(snake[1].x + nextDirection.x,
                           snake[1].y + nextDirection.y)
                 ELSE Cell((snake[1].x + nextDirection.x + TILE_COUNT)
                               % TILE_COUNT,
                           (snake[1].y + nextDirection.y + TILE_COUNT)
                               % TILE_COUNT)
        IN  (\E i \in 1..Len(snake) : snake[i] = c)
                => SessionState' = "Lost"]_vars

\* C25 witness: the session was lost by a 4-cell entity around the 2x2 block
\* (10,10)..(11,11) whose candidate was its own tail cell (10,10)
C25_Witness ==
    /\ SessionState = "Lost"
    /\ event.op = "lost"
    /\ snake = <<Cell(10, 11), Cell(11, 11), Cell(11, 10), Cell(10, 10)>>
    /\ direction = Up

\* C26: the tick that takes the session from Running to Lost, by a self
\* collision or by leaving the grid, changes neither the entity cells nor
\* the target cell nor the score
C26_LostTickFrozen ==
    [][(Tick /\ SessionState = "Running" /\ SessionState' = "Lost")
          => /\ snake' = snake
             /\ food' = food
             /\ score' = score]_vars

\* C26 witness: a bounded session that had consumed once was lost on the
\* right wall: four cells, score 1, the head still in the last column
C26_Witness ==
    /\ policy = "bounded"
    /\ SessionState = "Lost"
    /\ event.op = "lost"
    /\ score = 1
    /\ Len(snake) = 4
    /\ snake[1] = Cell(TILE_COUNT - 1, 1)
    /\ ~Occupies(snake, food)

\* C27: the relocation of the target that follows a consumption returns, so
\* that the tick completes as a consuming tick, and the cell it leaves in
\* `food` is not a cell of the entity, whatever cells the entity occupies
C27_RelocationReturns ==
    [][(score' = score + 1)
         => /\ event'.op = "eat"
            /\ ~Occupies(snake', food')]_vars

\* C28: whenever the session is Running an interval is scheduled; a resume
\* from Paused leaves the session Running, and, the host firing scheduled
\* intervals, a tick then eventually fires unless the session is paused again
\* first; a tick directly after a resume starts from the entity preserved
\* through the pause and puts its head one step from the preserved head (or
\* ends the session on a collision)
C28_ResumeTicks ==
    /\ [](Running => timers # {})
    /\ [](event.op = "resume" => Running)
    /\ [][(Tick /\ event.op = "resume" /\ pauseSnap # NoSnap) =>
            /\ snake = pauseSnap.snap.snake
            /\ \/ SessionState' = "Lost"
               \/ snake'[1] = NextHead(policy, pauseSnap.snap.snake[1],
                                       nextDirection)]_vars
    /\ (event.op = "resume" /\ clock < MaxClock)
           ~> (event.op \in {"move", "eat", "lost"} \/ isPaused)

\* C28 witness: the session was resumed after a pause taken with four cells,
\* it is Running with an interval scheduled and time left for a tick
C28_Witness ==
    /\ event.op = "resume"
    /\ Running
    /\ timers # {}
    /\ clock < MaxClock
    /\ pauseSnap # NoSnap
    /\ Len(pauseSnap.snap.snake) = 4
    /\ snake = pauseSnap.snap.snake

\* C29: a tick makes the direction pending at its start the committed one and
\* leaves the pending direction as it is; its candidate head is the head plus
\* that direction (wrapped in the toroidal variant); the session is Lost
\* after the tick exactly when that candidate is outside the grid (bounded)
\* or on the body, and otherwise the candidate is the new head; a tick that
\* follows a tick or a start with no input in between commits the direction
\* committed before
C29_CommitFirst ==
    /\ [][Tick =>
            LET d == nextDirection
                c == IF policy = "bounded"
                     THEN Cell(snake[1].x + d.x, snake[1].y + d.y)
                     ELSE Cell((snake[1].x + d.x + TILE_COUNT) % TILE_COUNT,
                               (snake[1].y + d.y + TILE_COUNT) % TILE_COUNT)
                hit == \/ policy = "bounded" /\ OutOfRange(c)
                       \/ Occupies(snake, c)
            IN  /\ direction' = d
                /\ nextDirection' = d
                /\ hit <=> SessionState' = "Lost"
                /\ ~hit => snake'[1] = c]_vars
    /\ [][(Tick /\ event.op \in {"move", "eat", "start"})
            => direction' = direction]_vars

\* C29 witness: a request for (0,-1) arrived while (1,0) was committed and
\* the next tick took the head from (10,10) to (10,9)
C29_Witness ==
    /\ event.op = "move"
    /\ direction = Up
    /\ snake = <<Cell(10, 9), Cell(10, 10), Cell(9, 10)>>

\* C30: in every reachable state of both variants no cell occurs twice in
\* the entity body
C30_NoDuplicateCells ==
    Cardinality({snake[i] : i \in 1..Len(snake)}) = Len(snake)

\* C30 witness: an entity that covers all but one cell of the grid turned
\* towards its own body and the session was lost with the body intact
C30_Witness ==
    /\ SessionState = "Lost"
    /\ event.op = "lost"
    /\ Len(snake) = TILE_COUNT * TILE_COUNT - 1
    /\ direction = Down

\* C31: in every reachable state of both variants every entity cell and the
\* target cell have both coordinates in 0..TILE_COUNT-1
C31_CellsOnGrid ==
    /\ \A i \in 1..Len(snake) :
           /\ snake[i].x \in 0..(TILE_COUNT - 1)
           /\ snake[i].y \in 0..(TILE_COUNT - 1)
    /\ food.x \in 0..(TILE_COUNT - 1)
    /\ food.y \in 0..(TILE_COUNT - 1)

\* C31 witness: the bounded session was lost on the top wall, the head still
\* in row 0, and the target had been relocated by a consumption before
C31_Witness ==
    /\ policy = "bounded"
    /\ SessionState = "Lost"
    /\ event.op = "lost"
    /\ direction = Up
    /\ snake[1].y = 0
    /\ score = 1

\* C32: in the toroidal variant a pointer-down on the canvas that follows a
\* completed directional swipe, with no tick in between and at the point where
\* that swipe began, does not toggle the pause: it leaves the pause flag and
\* the interval alone
C32_SwipeIsNoTap ==
    [][(/\ policy = "wrap"
        /\ event.op = "input"
        /\ swipeStart = NoPoint
        /\ \E p \in DownPoints :
             /\ p.x = lastTap.x /\ p.y = lastTap.y
             /\ clock - lastTap.t < doubleTapTimeout
             /\ onPointerDown(p))
         => UNCHANGED <<isPaused, timers>>]_vars

\* C33: in every state after the first start the entity has 3 + score cells
C33_LengthIsScore == Started => Len(snake) = 3 + score

\* C33 witness: a session that consumed twice was paused with five cells
C33_Witness ==
    /\ SessionState = "Paused"
    /\ score = 2
    /\ Len(snake) = 5

\* C34: in every state after the first start each two consecutive body cells
\* differ by one unit step on one axis and not at all on the other: by 1 in
\* the bounded variant, by 1 modulo TILE_COUNT in the toroidal variant
C34_ConnectedChain ==
    \A i \in 1..(Len(snake) - 1) :
        LET ax == snake[i].x - snake[i + 1].x
            ay == snake[i].y - snake[i + 1].y
            mx == (ax + TILE_COUNT) % TILE_COUNT
            my == (ay + TILE_COUNT) % TILE_COUNT
        IN  IF policy = "bounded"
            THEN \/ ax \in {-1, 1} /\ ay = 0
                 \/ ay \in {-1, 1} /\ ax = 0
            ELSE \/ mx \in {1, TILE_COUNT - 1} /\ my = 0
                 \/ my \in {1, TILE_COUNT - 1} /\ mx = 0

\* C34 witness: the toroidal entity lies across the right edge: head in
\* column 0, second cell in the last column
C34_Witness ==
    /\ policy = "wrap"
    /\ event.op \in {"move", "eat"}
    /\ direction = Right
    /\ snake[1].x = 0
    /\ snake[2].x = TILE_COUNT - 1

\* C35: in the bounded variant, after a start followed by ticks with no
\* directional input and no pause, the session is Running with the head on
\* (10 + k, 10) after k ticks for every k below TILE_COUNT - 10 and is Lost
\* from the (TILE_COUNT - 10)th tick on, wherever the targets are
C35_StraightRun ==
    LET k == (clock - (MaxClock - (RunTicks + 1) * GAME_SPEED)) \div GAME_SPEED
    IN  IF k < TILE_COUNT - 10
        THEN /\ SessionState = "Running"
             /\ snake[1] = Cell(10 + k, 10)
        ELSE /\ SessionState = "Lost"
             /\ snake[1] = Cell(TILE_COUNT - 1, 10)

\* C35 witness: the 20th period has just ended with the losing tick, after a
\* run in which targets were consumed
C35_Witness ==
    /\ clock = MaxClock - GAME_SPEED
    /\ event.op = "lost"
    /\ SessionState = "Lost"
    /\ score >= 2

\* C36: in the toroidal variant no tick ends the session while the score is
\* 0 (three cells), whatever directional inputs came before it: the session
\* is never Lost with score 0
C36_NoLossAtLengthThree ==
    /\ [](policy = "wrap" /\ score = 0 => SessionState # "Lost")
    /\ [][(policy = "wrap" /\ Tick /\ Len(snake) = 3)
            => SessionState' = SessionState]_vars

\* C36 witness: the three-cell toroidal entity went round the 2x2 block
\* (27,1)..(28,2) and its head is back on the cell its tail left, Running
C36_Witness ==
    /\ policy = "wrap"
    /\ SessionState = "Running"
    /\ score = 0
    /\ snake = <<Cell(TILE_COUNT - 3, 1), Cell(TILE_COUNT - 3, 2),
                 Cell(TILE_COUNT - 2, 2)>>

\* C37: in the toroidal variant one activation of the pause button in a
\* started session flips the pause flag exactly once: a Running session is
\* Paused after it, with no interval scheduled, and a Paused session is
\* Running after it, with one scheduled
C37_ButtonTogglesOnce ==
    [][(PauseButton /\ isGameRunning)
         => /\ isPaused' = ~isPaused
            /\ isGameRunning'
            /\ (timers' = {}) = isPaused']_vars

====
